---- MODULE Spec2Model ----
(***************************************************************************)
(* Owl backend: the sandbox lifecycle manager (SandboxService) and the     *)
(* agentic tool loop (ChatService.chat).                                   *)
(*                                                                         *)
(* Execution model.  The backend is one Node.js event loop.  An operation  *)
(* runs without interruption until it awaits an external port (the E2B     *)
(* sandbox SDK or the completion API); the other operations interleave     *)
(* only at those awaits.  Every action below is the code between two such  *)
(* awaits.  A process whose pc is in SyncPcs has returned from a service   *)
(* call into ChatService and is still running synchronously: no other     *)
(* process may step until it reaches its next await.                       *)
(***************************************************************************)
EXTENDS Integers, Sequences, FiniteSets, TLC

\* ---------------------------------------------------------------- bounds
NumKeys == 2
NumProcs == 2
NumSockets == 2
MaxEnvs == 2
MaxOps == 4
MaxChatOps == 2
MaxCastOps == 3
MaxVersions == 4
MaxTime == 1
MaxRounds == 2
ScaffoldFiles == 1
ContextFiles == 1

Keys == 1..NumKeys
Procs == 1..NumProcs
EnvIds == 1..MaxEnvs
TimerIds == 1..(NumKeys + 1)
Sockets == 1..NumSockets

NoEnv == 0
NoKey == 0
NoVersion == 0
Snapshots == {"snap1", "snap2"}
NoTimer == 0
NoTime == -1

\* the files and contents the modelled callers and the model write
Paths == {"a.txt", "package.json"}
NoFile == "<absent>"
\* the commands the HTTP clients of /sandbox/execute send in the model
ClientCommands == {"cat a.txt", "false"}

\* ----------------------------------------------------------------- state
VARIABLES
  activeSandboxes,     \* sandbox-service.ts:6   session -> handle (its sandboxId), NoEnv if absent
  sandboxIds,          \* sandbox-service.ts:9   session -> recorded sandboxId
  lastActivityTime,    \* sandbox-service.ts:12  session -> time of last activity
  keepAliveIntervals,  \* sandbox-service.ts:25  session -> interval id
  timers,              \* the intervals registered with setInterval and not cleared
  envState,            \* the E2B side: every sandbox id is free, live or dead
  envOwner,            \* the session whose createSandbox created the sandbox
  createCalls,         \* number of Sandbox.create calls issued per session
  events,              \* session -> the activities handed to broadcastActivity, in emission order
  envFiles,            \* the files of every sandbox: path -> content
  now,                 \* Date.now()
  procs,               \* the operations in flight, one record per task
  chat,                \* the locals of ChatService.chat, per task
  client,              \* ChatService.client is set (ANTHROPIC_API_KEY configured)
  budget,              \* number of operations the callers may still start
  sessionConnections,  \* index.ts:17  session -> the WebSockets registered for it
  readyState,          \* the state of every WebSocket
  sent,                \* WebSocket -> the activities sent on it, in order
  broadcastCallback,   \* part_011:74  the callback of createApp's broadcast helper is set
  versions,            \* InMemoryDB.versions, in insertion order
  activities           \* part_003:66  InMemoryDB.activities: session -> the logged activities

vars == <<activeSandboxes, sandboxIds, lastActivityTime, keepAliveIntervals, timers,
          envState, envOwner, envFiles, createCalls, events, now, procs, chat, client, budget,
          sessionConnections, readyState, sent, broadcastCallback, versions, activities>>

lifecycle == <<activeSandboxes, sandboxIds, lastActivityTime, keepAliveIntervals, timers>>
world == <<envState, envOwner, envFiles>>
cast == <<sessionConnections, readyState, broadcastCallback>>

\* ------------------------------------------------------------- processes
NoRet == [st |-> "none", id |-> NoEnv, msg |-> "", stdout |-> "", stderr |-> "", exitCode |-> 0,
          text |-> <<>>]
NoArg == [command |-> "", path |-> "", content |-> ""]
CommandArg(c) == [NoArg EXCEPT !.command = c]
FileArg(f, c) == [NoArg EXCEPT !.path = f, !.content = c]
IdleProc == [op |-> "idle", call |-> "none", pc |-> "idle", key |-> 0, h |-> NoEnv,
             arg |-> NoArg, ret |-> NoRet]

ChatIdle == [phase |-> "none", step |-> 0, messages |-> <<>>, finalResponse |-> <<>>,
             content |-> <<>>, idx |-> 0, toolResults |-> <<>>, stage |-> "none", rounds |-> 0,
             port |-> "none"]

\* program points at which a process is not suspended on a port
SyncPcs == {"ret", "block"}
Runnable(p) == \A q \in Procs : q # p => procs[q].pc \notin SyncPcs
CanStart(p) == /\ procs[p].pc \in {"idle", "done"}
               /\ Runnable(p)
               /\ budget > 0

Activity(k, type, e) == [key |-> k, type |-> type, about |-> e, path |-> ""]
\* a file_change activity: its payload names the path
FileChange(k, e, f) == [Activity(k, "file_change", e) EXCEPT !.path = f]

\* sandbox-service.ts: `return x` / `throw e` of a public method
Return(pr, r) ==
  [pr |-> [pr EXCEPT !.pc = IF pr.op = pr.call THEN "done" ELSE "ret", !.ret = r, !.h = NoEnv],
   ev |-> <<>>]

OkRet(e) == [NoRet EXCEPT !.st = "ok", !.id = e]
ErrRet(m) == [NoRet EXCEPT !.st = "err", !.msg = m]

\* the message each public method throws when getOrCreateSandbox throws
NoSandboxMessage(call) ==
  IF call = "executeCommand"
  THEN "No active sandbox for this session. Please start a new chat."
  ELSE "No active sandbox for this session"

\* the catch block of the caller of getOrCreateSandbox
AcquireThrew(pr, err) ==
  IF pr.call = "createSandbox"
  THEN [pr |-> [pr EXCEPT !.pc = "create", !.h = NoEnv],
        ev |-> <<Activity(pr.key, "terminal", NoEnv)>>]
  ELSE Return(pr, ErrRet(NoSandboxMessage(pr.call)))

\* (variant: createSandbox goes on to create a sandbox although one was acquired)
AcquireReturnedRecreates(pr, e) ==
  CASE pr.call = "createSandbox" ->
         [pr |-> [pr EXCEPT !.pc = "create", !.h = NoEnv],
          ev |-> <<Activity(pr.key, "terminal", NoEnv)>>]
    [] pr.call = "executeCommand" ->
         [pr |-> [pr EXCEPT !.pc = "run", !.h = e],
          ev |-> <<Activity(pr.key, "terminal", NoEnv)>>]
    [] pr.call = "writeFile" -> [pr |-> [pr EXCEPT !.pc = "write", !.h = e], ev |-> <<>>]
    [] pr.call = "readFile" -> [pr |-> [pr EXCEPT !.pc = "read", !.h = e], ev |-> <<>>]
    [] pr.call = "listFiles" -> [pr |-> [pr EXCEPT !.pc = "list", !.h = e], ev |-> <<>>]
    [] pr.call = "startDevServer" ->
         [pr |-> [pr EXCEPT !.pc = "sleep", !.h = e],
          ev |-> <<Activity(pr.key, "terminal", NoEnv)>>]

\* the code of the caller after `sandbox = await this.getOrCreateSandbox(..)`
AcquireReturned(pr, e) ==
  CASE pr.call = "createSandbox" -> Return(pr, OkRet(e))
    [] pr.call = "executeCommand" ->
         [pr |-> [pr EXCEPT !.pc = "run", !.h = e],
          ev |-> <<Activity(pr.key, "terminal", NoEnv)>>]
    [] pr.call = "writeFile" -> [pr |-> [pr EXCEPT !.pc = "write", !.h = e], ev |-> <<>>]
    [] pr.call = "readFile" -> [pr |-> [pr EXCEPT !.pc = "read", !.h = e], ev |-> <<>>]
    [] pr.call = "listFiles" -> [pr |-> [pr EXCEPT !.pc = "list", !.h = e], ev |-> <<>>]
    [] pr.call = "startDevServer" ->
         [pr |-> [pr EXCEPT !.pc = "sleep", !.h = e],
          ev |-> <<Activity(pr.key, "terminal", NoEnv)>>]

\* (variant: with nothing to acquire, a sandbox is created silently)
AcquireBeginCreates(pr) ==
  IF activeSandboxes[pr.key] # NoEnv
  THEN [pr |-> [pr EXCEPT !.pc = "probe", !.h = activeSandboxes[pr.key]], ev |-> <<>>]
  ELSE IF sandboxIds[pr.key] # NoEnv
  THEN [pr |-> [pr EXCEPT !.pc = "connect", !.h = sandboxIds[pr.key]], ev |-> <<>>]
  ELSE [pr |-> [pr EXCEPT !.pc = "create", !.h = NoEnv],
        ev |-> <<Activity(pr.key, "terminal", NoEnv)>>]

\* getOrCreateSandbox up to its first await
AcquireBegin(pr) ==
  IF activeSandboxes[pr.key] # NoEnv
  THEN [pr |-> [pr EXCEPT !.pc = "probe", !.h = activeSandboxes[pr.key]], ev |-> <<>>]
  ELSE IF sandboxIds[pr.key] # NoEnv
  THEN [pr |-> [pr EXCEPT !.pc = "connect", !.h = sandboxIds[pr.key]], ev |-> <<>>]
  ELSE AcquireThrew(pr, "NO_SANDBOX")

\* (variant: with no connection registered for the session, every open socket gets it)
broadcastActivityToAll(sn, a) ==
  [s \in Sockets |->
     IF readyState[s] = "open" /\ (sessionConnections[a.key] = {} \/ s \in sessionConnections[a.key])
     THEN Append(sn[s], a) ELSE sn[s]]

\* (variant: the socket's readyState is not looked at)
broadcastActivityAnyState(sn, a) ==
  [s \in Sockets |-> IF s \in sessionConnections[a.key] THEN Append(sn[s], a) ELSE sn[s]]

\* broadcastActivity(sessionId, activity): what each socket has been sent afterwards
broadcastActivity(sn, a) ==
  IF sessionConnections[a.key] = {}
  THEN sn
  ELSE [s \in Sockets |->
          IF s \in sessionConnections[a.key] /\ readyState[s] = "open"
          THEN Append(sn[s], a) ELSE sn[s]]

\* createApp's broadcast helper, applied to the activities of a step in emission order
RECURSIVE SendAll(_, _)
SendAll(sn, acts) ==
  IF acts = <<>> \/ ~broadcastCallback THEN sn
  ELSE SendAll(broadcastActivity(sn, Head(acts)), Tail(acts))

\* emitActivity -> this.broadcastActivity(sessionId, activity), for every activity of a step
Broadcast(acts) ==
  /\ events' = [k \in Keys |-> events[k] \o SelectSeq(acts, LAMBDA a : a.key = k)]
  /\ sent' = SendAll(sent, acts)

Step(p, out, pre) ==
  /\ procs' = [procs EXCEPT ![p] = out.pr]
  /\ Broadcast(pre \o out.ev)

\* ------------------------------------------------------ lifecycle helpers
\* (variant: the tables of every session are cleared)
cleanupAllSandboxes(k) ==
  /\ activeSandboxes' = [j \in Keys |-> NoEnv]
  /\ sandboxIds' = [j \in Keys |-> NoEnv]
  /\ lastActivityTime' = [j \in Keys |-> NoTime]
  /\ keepAliveIntervals' = [j \in Keys |-> NoTimer]
  /\ timers' = {}

cleanupSandbox(k) ==
  /\ activeSandboxes' = [activeSandboxes EXCEPT ![k] = NoEnv]
  /\ sandboxIds' = [sandboxIds EXCEPT ![k] = NoEnv]
  /\ lastActivityTime' = [lastActivityTime EXCEPT ![k] = NoTime]
  /\ keepAliveIntervals' = [keepAliveIntervals EXCEPT ![k] = NoTimer]
  /\ timers' = {t \in timers : t.id # keepAliveIntervals[k]}

\* (variant: the interval already running for the session is left running)
startKeepAliveNoClear(k) ==
  LET id == CHOOSE i \in TimerIds :
              /\ \A t \in timers : t.id # i
              /\ \A j \in TimerIds : (\A t \in timers : t.id # j) => i <= j
  IN /\ timers' = timers \cup {[id |-> id, key |-> k]}
     /\ keepAliveIntervals' = [keepAliveIntervals EXCEPT ![k] = id]

startKeepAlive(k) ==
  LET cleared == {t \in timers : t.id # keepAliveIntervals[k]}
      id == CHOOSE i \in TimerIds :
              /\ \A t \in cleared : t.id # i
              /\ \A j \in TimerIds : (\A t \in cleared : t.id # j) => i <= j
  IN /\ timers' = cleared \cup {[id |-> id, key |-> k]}
     /\ keepAliveIntervals' = [keepAliveIntervals EXCEPT ![k] = id]

\* isSandboxAlive: a dead sandbox never answers; a live one may time out
ProbeOutcomes(e) == IF envState[e] = "live" THEN {TRUE, FALSE} ELSE {FALSE}

\* ---------------------------------------------------------------- actions
Init ==
  /\ activeSandboxes = [k \in Keys |-> NoEnv]
  /\ sandboxIds = [k \in Keys |-> NoEnv]
  /\ lastActivityTime = [k \in Keys |-> NoTime]
  /\ keepAliveIntervals = [k \in Keys |-> NoTimer]
  /\ timers = {}
  /\ envState = [e \in EnvIds |-> "free"]
  /\ envOwner = [e \in EnvIds |-> 0]
  /\ envFiles = [e \in EnvIds |-> [f \in Paths |-> NoFile]]
  /\ createCalls = [k \in Keys |-> 0]
  /\ events = [k \in Keys |-> <<>>]
  /\ now = 0
  /\ procs = [p \in Procs |-> IdleProc]
  /\ chat = [p \in Procs |-> ChatIdle]
  /\ client = TRUE
  /\ budget = MaxOps
  /\ sessionConnections = [k \in Keys |-> {}]
  /\ readyState = [s \in Sockets |-> "new"]
  /\ sent = [s \in Sockets |-> <<>>]
  /\ broadcastCallback = FALSE
  /\ versions = <<>>
  /\ activities = [k \in Keys |-> <<>>]

\* the same, with or without a configured completion client
InitChat ==
  /\ activeSandboxes = [k \in Keys |-> NoEnv]
  /\ sandboxIds = [k \in Keys |-> NoEnv]
  /\ lastActivityTime = [k \in Keys |-> NoTime]
  /\ keepAliveIntervals = [k \in Keys |-> NoTimer]
  /\ timers = {}
  /\ envState = [e \in EnvIds |-> "free"]
  /\ envOwner = [e \in EnvIds |-> 0]
  /\ envFiles = [e \in EnvIds |-> [f \in Paths |-> NoFile]]
  /\ createCalls = [k \in Keys |-> 0]
  /\ events = [k \in Keys |-> <<>>]
  /\ now = 0
  /\ procs = [p \in Procs |-> IdleProc]
  /\ chat = [p \in Procs |-> ChatIdle]
  /\ client \in BOOLEAN
  /\ budget = MaxChatOps
  /\ sessionConnections = [k \in Keys |-> {}]
  /\ readyState = [s \in Sockets |-> "new"]
  /\ sent = [s \in Sockets |-> <<>>]
  /\ broadcastCallback = FALSE
  /\ versions = <<>>
  /\ activities = [k \in Keys |-> <<>>]

\* a caller invokes createSandbox / executeCommand / writeFile
Begin(p, call, k, arg) ==
  /\ CanStart(p)
  /\ Step(p, AcquireBegin([IdleProc EXCEPT !.op = call, !.call = call, !.key = k, !.arg = arg]), <<>>)
  /\ UNCHANGED <<lifecycle, world, createCalls, now, chat, client, versions, activities, cast>>
  /\ budget' = budget - 1

\* (variant: a successful probe does not refresh the activity time)
ProbeReturnNoRefresh(p) ==
  LET pr == procs[p] k == pr.key IN
  /\ pr.pc = "probe"
  /\ Runnable(p)
  /\ \E alive \in ProbeOutcomes(pr.h) :
       IF alive
       THEN /\ Step(p, AcquireReturned(pr, pr.h), <<>>)
            /\ UNCHANGED lifecycle
       ELSE /\ cleanupSandbox(k)
            /\ Step(p, AcquireThrew(pr, "SANDBOX_EXPIRED"),
                    <<Activity(k, "sandbox_expired", pr.h)>>)
  /\ UNCHANGED <<world, createCalls, now, chat, client, versions, activities, cast, budget>>

\* getOrCreateSandbox: the probe of the cached handle answers
ProbeReturn(p) ==
  LET pr == procs[p] k == pr.key IN
  /\ pr.pc = "probe"
  /\ Runnable(p)
  /\ \E alive \in ProbeOutcomes(pr.h) :
       IF alive
       THEN /\ lastActivityTime' = [lastActivityTime EXCEPT ![k] = now]
            /\ Step(p, AcquireReturned(pr, pr.h), <<>>)
            /\ UNCHANGED <<activeSandboxes, sandboxIds, keepAliveIntervals, timers>>
       ELSE /\ cleanupSandbox(k)
            /\ Step(p, AcquireThrew(pr, "SANDBOX_EXPIRED"),
                    <<Activity(k, "sandbox_expired", pr.h)>>)
  /\ UNCHANGED <<world, createCalls, now, chat, client, versions, activities, cast, budget>>

\* (variant: a failed reconnection is reported but the recorded id is kept)
ConnectReturnKeepsId(p) ==
  LET pr == procs[p] k == pr.key IN
  /\ pr.pc = "connect"
  /\ Runnable(p)
  /\ IF envState[pr.h] = "live"
     THEN /\ procs' = [procs EXCEPT ![p].pc = "reprobe"]
          /\ UNCHANGED <<lifecycle, events, sent>>
     ELSE /\ UNCHANGED lifecycle
          /\ Step(p, AcquireThrew(pr, "SANDBOX_EXPIRED"),
                  <<Activity(k, "sandbox_expired", pr.h)>>)
  /\ UNCHANGED <<world, createCalls, now, chat, client, versions, activities, cast, budget>>

\* getOrCreateSandbox: Sandbox.connect(storedId) answers
ConnectReturn(p) ==
  LET pr == procs[p] k == pr.key IN
  /\ pr.pc = "connect"
  /\ Runnable(p)
  /\ IF envState[pr.h] = "live"
     THEN /\ procs' = [procs EXCEPT ![p].pc = "reprobe"]
          /\ UNCHANGED <<lifecycle, events, sent>>
     ELSE /\ cleanupSandbox(k)
          /\ Step(p, AcquireThrew(pr, "SANDBOX_EXPIRED"),
                  <<Activity(k, "sandbox_expired", pr.h)>>)
  /\ UNCHANGED <<world, createCalls, now, chat, client, versions, activities, cast, budget>>

\* getOrCreateSandbox: the probe of the reconnected sandbox answers
ReprobeReturn(p) ==
  LET pr == procs[p] k == pr.key IN
  /\ pr.pc = "reprobe"
  /\ Runnable(p)
  /\ \E alive \in ProbeOutcomes(pr.h) :
       IF alive
       THEN /\ activeSandboxes' = [activeSandboxes EXCEPT ![k] = pr.h]
            /\ lastActivityTime' = [lastActivityTime EXCEPT ![k] = now]
            /\ startKeepAlive(k)
            /\ Step(p, AcquireReturned(pr, pr.h), <<>>)
            /\ UNCHANGED sandboxIds
       ELSE /\ cleanupSandbox(k)
            /\ Step(p, AcquireThrew(pr, "SANDBOX_EXPIRED"),
                    <<Activity(k, "sandbox_expired", pr.h)>>)
  /\ UNCHANGED <<world, createCalls, now, chat, client, versions, activities, cast, budget>>

\* createSandbox: Sandbox.create answers
CreateReturn(p) ==
  LET pr == procs[p] k == pr.key IN
  /\ pr.pc = "create"
  /\ Runnable(p)
  /\ \/ \E e \in EnvIds :
          /\ envState[e] = "free"
          /\ \A f \in EnvIds : envState[f] = "free" => e <= f
          /\ envState' = [envState EXCEPT ![e] = "live"]
          /\ envOwner' = [envOwner EXCEPT ![e] = k]
          /\ activeSandboxes' = [activeSandboxes EXCEPT ![k] = e]
          /\ sandboxIds' = [sandboxIds EXCEPT ![k] = e]
          /\ lastActivityTime' = [lastActivityTime EXCEPT ![k] = now]
          /\ startKeepAlive(k)
          /\ Step(p, Return(pr, OkRet(e)),
                  <<Activity(k, "terminal", e), Activity(k, "preview_ready", e)>>)
     \/ /\ Step(p, Return(pr, ErrRet("create failed")), <<Activity(k, "error", NoEnv)>>)
        /\ UNCHANGED <<lifecycle, envState, envOwner>>
  /\ createCalls' = [createCalls EXCEPT ![k] = @ + 1]
  /\ UNCHANGED <<envFiles, now, chat, client, versions, activities, cast, budget>>

\* what a command does in a live sandbox: {stdout, stderr, exitCode}
CommandResult(e, cmd) ==
  CASE cmd = "cat a.txt" ->
         IF envFiles[e]["a.txt"] # NoFile
         THEN [NoRet EXCEPT !.st = "ok", !.id = e, !.stdout = envFiles[e]["a.txt"]]
         ELSE [NoRet EXCEPT !.st = "ok", !.id = e, !.stderr = "No such file", !.exitCode = 1]
    [] cmd = "false" -> [NoRet EXCEPT !.st = "ok", !.id = e, !.exitCode = 1]
    [] OTHER -> [NoRet EXCEPT !.st = "ok", !.id = e]

\* executeCommand: sandbox.commands.run answers
RunReturn(p) ==
  LET pr == procs[p] k == pr.key
      res == CommandResult(pr.h, pr.arg.command) IN
  /\ pr.pc = "run"
  /\ Runnable(p)
  /\ IF envState[pr.h] = "live"
     THEN Step(p, Return(pr, res),
               (IF res.stdout # "" THEN <<Activity(k, "terminal", pr.h)>> ELSE <<>>) \o
               (IF res.stderr # "" THEN <<Activity(k, "terminal", pr.h)>> ELSE <<>>) \o
               (IF res.exitCode # 0 THEN <<Activity(k, "terminal", pr.h)>> ELSE <<>>))
     ELSE Step(p, Return(pr, ErrRet("sandbox not reachable")), <<Activity(k, "error", pr.h)>>)
  /\ UNCHANGED <<lifecycle, world, createCalls, now, chat, client, versions, activities, cast, budget>>

\* writeFile: sandbox.files.write answers
WriteReturn(p) ==
  LET pr == procs[p] k == pr.key IN
  /\ pr.pc = "write"
  /\ Runnable(p)
  /\ IF envState[pr.h] = "live"
     THEN /\ envFiles' = [envFiles EXCEPT ![pr.h][pr.arg.path] = pr.arg.content]
          /\ Step(p, Return(pr, OkRet(pr.h)), <<FileChange(k, pr.h, pr.arg.path)>>)
     ELSE /\ Step(p, Return(pr, ErrRet("sandbox not reachable")), <<Activity(k, "error", pr.h)>>)
          /\ UNCHANGED envFiles
  /\ UNCHANGED <<lifecycle, envState, envOwner, createCalls, now, chat, client, versions, activities, cast, budget>>

\* keepAlive up to its await
KeepAliveBegin(pr) ==
  IF activeSandboxes[pr.key] = NoEnv
  THEN Return(pr, [NoRet EXCEPT !.st = "ok", !.msg = "alive=false"])
  ELSE [pr |-> [pr EXCEPT !.pc = "kaprobe", !.h = activeSandboxes[pr.key]], ev |-> <<>>]

\* a caller invokes keepAlive(k)
KeepAlive(p, k) ==
  /\ CanStart(p)
  /\ Step(p, KeepAliveBegin([IdleProc EXCEPT !.op = "keepAlive", !.call = "keepAlive", !.key = k]), <<>>)
  /\ UNCHANGED <<lifecycle, world, createCalls, now, chat, client, versions, activities, cast>>
  /\ budget' = budget - 1

\* the setInterval callback of startKeepAlive fires
TimerFire(p, t) ==
  /\ t \in timers
  /\ CanStart(p)
  /\ Step(p, KeepAliveBegin([IdleProc EXCEPT !.op = "timer", !.call = "timer", !.key = t.key]), <<>>)
  /\ UNCHANGED <<lifecycle, world, createCalls, now, chat, client, versions, activities, cast>>
  /\ budget' = budget - 1

\* (variant: a failed probe is reported but the handle is kept and nothing is emitted)
KeepAliveProbeReturnKeepsHandle(p) ==
  LET pr == procs[p] k == pr.key IN
  /\ pr.pc = "kaprobe"
  /\ Runnable(p)
  /\ \E alive \in ProbeOutcomes(pr.h) :
       IF alive
       THEN /\ lastActivityTime' = [lastActivityTime EXCEPT ![k] = now]
            /\ Step(p, Return(pr, [NoRet EXCEPT !.st = "ok", !.id = pr.h, !.msg = "alive=true"]), <<>>)
            /\ UNCHANGED <<activeSandboxes, sandboxIds, keepAliveIntervals, timers>>
       ELSE /\ Step(p, Return(pr, [NoRet EXCEPT !.st = "ok", !.msg = "alive=false"]), <<>>)
            /\ UNCHANGED lifecycle
  /\ UNCHANGED <<world, createCalls, now, chat, client, versions, activities, cast, budget>>

\* (variant: a failed probe cleans up without telling the client)
KeepAliveProbeReturnSilent(p) ==
  LET pr == procs[p] k == pr.key IN
  /\ pr.pc = "kaprobe"
  /\ Runnable(p)
  /\ \E alive \in ProbeOutcomes(pr.h) :
       IF alive
       THEN /\ lastActivityTime' = [lastActivityTime EXCEPT ![k] = now]
            /\ Step(p, Return(pr, [NoRet EXCEPT !.st = "ok", !.id = pr.h, !.msg = "alive=true"]), <<>>)
            /\ UNCHANGED <<activeSandboxes, sandboxIds, keepAliveIntervals, timers>>
       ELSE /\ cleanupSandbox(k)
            /\ Step(p, Return(pr, [NoRet EXCEPT !.st = "ok", !.msg = "alive=false"]), <<>>)
  /\ UNCHANGED <<world, createCalls, now, chat, client, versions, activities, cast, budget>>

\* keepAlive: the probe answers
KeepAliveProbeReturn(p) ==
  LET pr == procs[p] k == pr.key IN
  /\ pr.pc = "kaprobe"
  /\ Runnable(p)
  /\ \E alive \in ProbeOutcomes(pr.h) :
       IF alive
       THEN /\ lastActivityTime' = [lastActivityTime EXCEPT ![k] = now]
            /\ Step(p, Return(pr, [NoRet EXCEPT !.st = "ok", !.id = pr.h, !.msg = "alive=true"]), <<>>)
            /\ UNCHANGED <<activeSandboxes, sandboxIds, keepAliveIntervals, timers>>
       ELSE /\ cleanupSandbox(k)
            /\ Step(p, Return(pr, [NoRet EXCEPT !.st = "ok", !.msg = "alive=false"]),
                    <<Activity(k, "sandbox_expired", pr.h)>>)
  /\ UNCHANGED <<world, createCalls, now, chat, client, versions, activities, cast, budget>>

\* a caller invokes closeSandbox(k)
CloseSandbox(p, k) ==
  LET pr == [IdleProc EXCEPT !.op = "closeSandbox", !.call = "closeSandbox", !.key = k] IN
  /\ CanStart(p)
  /\ IF activeSandboxes[k] = NoEnv
     THEN Step(p, Return(pr, OkRet(NoEnv)), <<>>)
     ELSE Step(p, [pr |-> [pr EXCEPT !.pc = "kill", !.h = activeSandboxes[k]], ev |-> <<>>], <<>>)
  /\ UNCHANGED <<lifecycle, world, createCalls, now, chat, client, versions, activities, cast>>
  /\ budget' = budget - 1

\* closeSandbox: sandbox.kill answers or throws; the catch block only logs, the
\* method returns normally either way
KillReturn(p) ==
  LET pr == procs[p] k == pr.key IN
  /\ pr.pc = "kill"
  /\ Runnable(p)
  /\ \/ /\ envState' = [envState EXCEPT ![pr.h] = "dead"]
        /\ activeSandboxes' = [activeSandboxes EXCEPT ![k] = NoEnv]
        /\ Step(p, Return(pr, OkRet(NoEnv)), <<Activity(k, "terminal", pr.h)>>)
     \/ /\ Step(p, Return(pr, OkRet(NoEnv)), <<>>)
        /\ UNCHANGED <<envState, activeSandboxes>>
  /\ UNCHANGED <<sandboxIds, lastActivityTime, keepAliveIntervals, timers,
                 envOwner, envFiles, createCalls, now, chat, client, versions, activities, cast, budget>>

\* (variant: the status is read from the recorded ids)
GetSandboxStatusFromIds(p, k) ==
  /\ CanStart(p)
  /\ procs' = [procs EXCEPT ![p] =
        [IdleProc EXCEPT !.op = "getSandboxStatus", !.call = "getSandboxStatus", !.key = k,
                         !.pc = "done",
                         !.ret = IF sandboxIds[k] # NoEnv
                                 THEN [NoRet EXCEPT !.st = "ok", !.id = sandboxIds[k], !.msg = "active=true"]
                                 ELSE [NoRet EXCEPT !.st = "ok", !.msg = "active=false"]]]
  /\ UNCHANGED <<lifecycle, world, createCalls, events, sent, now, chat, client, versions, activities, cast>>
  /\ budget' = budget - 1

\* getSandboxStatus(k)
GetSandboxStatus(p, k) ==
  /\ CanStart(p)
  /\ procs' = [procs EXCEPT ![p] =
        [IdleProc EXCEPT !.op = "getSandboxStatus", !.call = "getSandboxStatus", !.key = k,
                         !.pc = "done",
                         !.ret = IF activeSandboxes[k] # NoEnv
                                 THEN [NoRet EXCEPT !.st = "ok", !.id = activeSandboxes[k], !.msg = "active=true"]
                                 ELSE [NoRet EXCEPT !.st = "ok", !.msg = "active=false"]]]
  /\ UNCHANGED <<lifecycle, world, createCalls, events, sent, now, chat, client, versions, activities, cast>>
  /\ budget' = budget - 1

\* the sandbox reaches its timeout or is lost
EnvDies(e) ==
  /\ envState[e] = "live"
  /\ \A q \in Procs : procs[q].pc \notin SyncPcs
  /\ envState' = [envState EXCEPT ![e] = "dead"]
  /\ UNCHANGED <<lifecycle, envOwner, envFiles, createCalls, events, sent, now, procs, chat, client, versions, activities, cast, budget>>

\* time passes
Tick ==
  /\ now < MaxTime
  /\ \A q \in Procs : procs[q].pc \notin SyncPcs
  /\ now' = now + 1
  /\ UNCHANGED <<lifecycle, world, createCalls, events, sent, procs, chat, client, versions, activities, cast, budget>>

\* readFile: sandbox.files.read answers
ReadReturn(p) ==
  LET pr == procs[p] k == pr.key IN
  /\ pr.pc = "read"
  /\ Runnable(p)
  /\ IF envState[pr.h] = "live" /\ envFiles[pr.h][pr.arg.path] # NoFile
     THEN Step(p, Return(pr, [OkRet(pr.h) EXCEPT !.stdout = envFiles[pr.h][pr.arg.path]]), <<>>)
     ELSE Step(p, Return(pr, ErrRet("read failed")), <<Activity(k, "error", pr.h)>>)
  /\ UNCHANGED <<lifecycle, world, createCalls, now, chat, client, versions, activities, cast, budget>>

\* listFiles: sandbox.files.list answers
ListReturn(p) ==
  LET pr == procs[p] k == pr.key IN
  /\ pr.pc = "list"
  /\ Runnable(p)
  /\ IF envState[pr.h] = "live"
     THEN Step(p, Return(pr, OkRet(pr.h)), <<>>)
     ELSE Step(p, Return(pr, ErrRet("list failed")), <<Activity(k, "error", pr.h)>>)
  /\ UNCHANGED <<lifecycle, world, createCalls, now, chat, client, versions, activities, cast, budget>>

\* startDevServer: the 3 s wait after the detached `npm run dev` is over
SleepReturn(p) ==
  LET pr == procs[p] k == pr.key IN
  /\ pr.pc = "sleep"
  /\ Runnable(p)
  /\ Step(p, Return(pr, OkRet(pr.h)), <<Activity(k, "preview_ready", pr.h)>>)
  /\ UNCHANGED <<lifecycle, world, createCalls, now, chat, client, versions, activities, cast, budget>>

\* ------------------------------------------------------ ChatService.chat
Text(t) == [type |-> "text", text |-> t, name |-> "", input |-> NoArg, id |-> 0]
ToolUse(n, in) == [type |-> "tool_use", text |-> <<>>, name |-> n, input |-> in, id |-> 0]

\* the turns the completion port answers with
Responses ==
  { <<Text(<<"Done">>)>>,
    <<>>,
    <<ToolUse("write_file", FileArg("a.txt", "x")), ToolUse("run_command", CommandArg("cat a.txt"))>>,
    <<Text(<<"Working">>), ToolUse("run_command", CommandArg("false")), ToolUse("deploy", NoArg)>>,
    <<ToolUse("write_file", FileArg("a.txt", "")), ToolUse("run_command", CommandArg("true"))>> }

Fallback == <<"Done! Check the preview.">>
ConfigureMessage == <<"Please configure ANTHROPIC_API_KEY to enable AI capabilities.">>

\* initializeSandbox after createSandbox: mkdir, the scaffold files, npm install, dev server
Scaffold ==
  <<[call |-> "executeCommand", arg |-> CommandArg("mkdir -p")]>> \o
  [i \in 1..ScaffoldFiles |-> [call |-> "writeFile", arg |-> FileArg("package.json", "{}")]] \o
  <<[call |-> "executeCommand", arg |-> CommandArg("npm install")],
    [call |-> "startDevServer", arg |-> NoArg]>>

UserTurn(blocks, results) == [role |-> "user", content |-> blocks, results |-> results]
AssistantTurn(blocks) == [role |-> "assistant", content |-> blocks, results |-> <<>>]

\* ChatService calls a SandboxService method: the method runs up to its first await
CallService(pr, ch, call, arg) ==
  LET out == AcquireBegin([pr EXCEPT !.call = call, !.arg = arg, !.ret = NoRet, !.h = NoEnv])
  IN [pr |-> out.pr, ev |-> out.ev, ch |-> ch]

\* (variant: the text collected so far is dropped when the next turn is requested)
CompletionCallResetsText(pr, ch) ==
  [pr |-> [pr EXCEPT !.call = "none", !.pc = "completion", !.ret = NoRet, !.h = NoEnv],
   ev |-> <<>>,
   ch |-> [ch EXCEPT !.phase = "loop", !.step = 0, !.stage = "none", !.rounds = @ + 1,
                     !.content = <<>>, !.idx = 0, !.toolResults = <<>>,
                     !.finalResponse = <<>>]]

\* this.client.messages.create is issued
CompletionCall(pr, ch) ==
  [pr |-> [pr EXCEPT !.call = "none", !.pc = "completion", !.ret = NoRet, !.h = NoEnv],
   ev |-> <<>>,
   ch |-> [ch EXCEPT !.phase = "loop", !.step = 0, !.stage = "none", !.rounds = @ + 1,
                     !.content = <<>>, !.idx = 0, !.toolResults = <<>>]]

\* chat returns or throws
ChatDone(pr, ch, r) ==
  [pr |-> [pr EXCEPT !.call = "none", !.pc = "done", !.ret = r, !.h = NoEnv], ev |-> <<>>, ch |-> ch]

\* (variant: the failure of the completion call is swallowed and a text is returned)
CompletionThrewSwallowed(pr, ch) ==
  ChatDone(pr, [ch EXCEPT !.port = "failed"], [OkRet(NoEnv) EXCEPT !.text = Fallback])

\* this.client.messages.create throws: nothing in chat catches it
CompletionThrew(pr, ch) ==
  ChatDone(pr, [ch EXCEPT !.port = "failed"], ErrRet("completion failed"))

\* getFileState: one readFile per context file, then listFiles; errors are skipped
FileStateNext(pr, ch) ==
  IF activeSandboxes[pr.key] = NoEnv /\ ch.phase # "files"
  THEN CompletionCall(pr, ch)
  ELSE IF ch.phase # "files"
  THEN CallService(pr, [ch EXCEPT !.phase = "files", !.step = 1], "readFile", FileArg("package.json", ""))
  ELSE IF ch.step < ContextFiles
  THEN CallService(pr, [ch EXCEPT !.step = @ + 1], "readFile", FileArg("package.json", ""))
  ELSE IF ch.step = ContextFiles
  THEN CallService(pr, [ch EXCEPT !.step = @ + 1], "listFiles", NoArg)
  ELSE CompletionCall(pr, ch)

\* initializeSandbox: the next awaited call; any throw aborts chat
InitNext(pr, ch) ==
  IF pr.ret.st = "err"
  THEN ChatDone(pr, ch, ErrRet(pr.ret.msg))
  ELSE IF ch.step < Len(Scaffold)
  THEN LET out == CallService(pr, [ch EXCEPT !.step = @ + 1],
                              Scaffold[ch.step + 1].call, Scaffold[ch.step + 1].arg)
       IN IF ch.step + 1 >= Len(Scaffold) - 1
          THEN [out EXCEPT !.ev = <<Activity(pr.key, "terminal", NoEnv)>> \o @]
          ELSE out
  ELSE FileStateNext(pr, [ch EXCEPT !.phase = "init-done"])

\* the loop body after executeTool returned `result` for block idx
\* (env: the sandbox that served the invocation, kept for the properties only)
PushResult(pr, ch, result, evs) ==
  [pr |-> [pr EXCEPT !.call = "none", !.pc = "block", !.ret = NoRet, !.h = NoEnv],
   ev |-> evs,
   ch |-> [ch EXCEPT !.toolResults = Append(@, [type |-> "tool_result",
                                                tool_use_id |-> ch.content[ch.idx].id,
                                                content |-> result,
                                                env |-> pr.ret.id]),
                     !.idx = @ + 1, !.stage = "none"]]

\* (variant: the catch block produces no result for the invocation)
ToolCatchNoResult(pr, ch) ==
  [pr |-> [pr EXCEPT !.call = "none", !.pc = "block", !.ret = NoRet, !.h = NoEnv],
   ev |-> <<Activity(pr.key, "error", NoEnv)>>,
   ch |-> [ch EXCEPT !.idx = @ + 1, !.stage = "none"]]

\* (variant: the catch block rethrows and chat aborts)
ToolCatchRethrow(pr, ch) ==
  ChatDone(pr, ch, ErrRet(pr.ret.msg))

\* executeTool: the catch block
ToolCatch(pr, ch) ==
  PushResult(pr, ch, <<"Error: ", pr.ret.msg>>, <<Activity(pr.key, "error", NoEnv)>>)

\* (variant: the exit code is ignored, the output is the result)
CommandTextIgnoresExit(res) ==
  IF res.stdout # "" THEN <<res.stdout>> ELSE <<"Command completed">>

\* the result of run_command
CommandText(res) ==
  IF res.exitCode = 0
  THEN (IF res.stdout # "" THEN <<res.stdout>> ELSE <<"Command completed">>)
  ELSE <<"Error (exit ", ToString(res.exitCode), "): ", res.stderr>>

\* (variant: writeFile is not awaited, the result is produced right after mkdir)
ToolNextWriteNotAwaited(pr, ch) ==
  LET in == ch.content[ch.idx].input IN
  IF pr.ret.st = "err" THEN ToolCatch(pr, ch)
  ELSE CASE ch.stage = "mkdir" ->
              PushResult(pr, ch, <<"Written: ", in.path>>, <<FileChange(pr.key, NoEnv, in.path)>>)
         [] OTHER -> PushResult(pr, ch, CommandText(pr.ret), <<>>)

\* executeTool after an awaited SandboxService call returned or threw
ToolNext(pr, ch) ==
  LET in == ch.content[ch.idx].input IN
  IF pr.ret.st = "err" THEN ToolCatch(pr, ch)
  ELSE CASE ch.stage = "mkdir" ->
              CallService(pr, [ch EXCEPT !.stage = "write"], "writeFile",
                          FileArg(in.path, in.content))
         [] ch.stage = "write" ->
              PushResult(pr, ch, <<"Written: ", in.path>>, <<FileChange(pr.key, NoEnv, in.path)>>)
         [] OTHER -> PushResult(pr, ch, CommandText(pr.ret), <<>>)

\* (variant: write_file does not check its content argument)
ToolBeginWritesEmpty(pr, ch) ==
  LET b == ch.content[ch.idx]
      call == <<Activity(pr.key, "tool_call", NoEnv)>>
      with(out) == [out EXCEPT !.ev = call \o @]
  IN CASE b.name = "write_file" ->
            with(CallService(pr, [ch EXCEPT !.phase = "tool", !.stage = "mkdir"],
                             "executeCommand", CommandArg("mkdir -p")))
       [] b.name = "run_command" ->
            with(CallService(pr, [ch EXCEPT !.phase = "tool", !.stage = "run"],
                             "executeCommand", CommandArg(b.input.command)))
       [] OTHER -> PushResult(pr, ch, <<"Unknown tool: ", b.name>>, call)

\* (variant: an unknown tool name throws out of executeTool and chat)
ToolBeginUnknownThrows(pr, ch) ==
  LET b == ch.content[ch.idx]
      call == <<Activity(pr.key, "tool_call", NoEnv)>>
      with(out) == [out EXCEPT !.ev = call \o @]
  IN CASE b.name = "write_file" ->
            IF b.input.content = ""
            THEN PushResult(pr, ch, <<"Error: ", "content parameter is required">>, call)
            ELSE with(CallService(pr, [ch EXCEPT !.phase = "tool", !.stage = "mkdir"],
                                  "executeCommand", CommandArg("mkdir -p")))
       [] b.name = "run_command" ->
            with(CallService(pr, [ch EXCEPT !.phase = "tool", !.stage = "run"],
                             "executeCommand", CommandArg(b.input.command)))
       [] OTHER -> with(ChatDone(pr, ch, ErrRet("Unknown tool")))

\* (variant: no tool_call activity is emitted when the invocation starts)
ToolBeginNoToolCall(pr, ch) ==
  LET b == ch.content[ch.idx]
  IN CASE b.name = "write_file" ->
            IF b.input.content = ""
            THEN PushResult(pr, ch, <<"Error: ", "content parameter is required">>, <<>>)
            ELSE CallService(pr, [ch EXCEPT !.phase = "tool", !.stage = "mkdir"],
                             "executeCommand", CommandArg("mkdir -p"))
       [] b.name = "run_command" ->
            CallService(pr, [ch EXCEPT !.phase = "tool", !.stage = "run"],
                        "executeCommand", CommandArg(b.input.command))
       [] OTHER -> PushResult(pr, ch, <<"Unknown tool: ", b.name>>, <<>>)

\* executeTool up to its first await
ToolBegin(pr, ch) ==
  LET b == ch.content[ch.idx]
      call == <<Activity(pr.key, "tool_call", NoEnv)>>
      with(out) == [out EXCEPT !.ev = call \o @]
  IN CASE b.name = "write_file" ->
            IF b.input.content = ""
            THEN PushResult(pr, ch, <<"Error: ", "content parameter is required">>, call)
            ELSE with(CallService(pr, [ch EXCEPT !.phase = "tool", !.stage = "mkdir"],
                                  "executeCommand", CommandArg("mkdir -p")))
       [] b.name = "run_command" ->
            with(CallService(pr, [ch EXCEPT !.phase = "tool", !.stage = "run"],
                             "executeCommand", CommandArg(b.input.command)))
       [] OTHER -> PushResult(pr, ch, <<"Unknown tool: ", b.name>>, call)

\* (variant: the accumulated text is returned as it is, also when empty)
TurnEndNoFallback(pr, ch) ==
  IF Len(ch.toolResults) = 0
  THEN ChatDone(pr, ch, [OkRet(NoEnv) EXCEPT !.text = ch.finalResponse])
  ELSE CompletionCall(pr, [ch EXCEPT !.messages =
         @ \o <<AssistantTurn(ch.content), UserTurn(<<>>, ch.toolResults)>>])

\* the code after the for loop over response.content
TurnEnd(pr, ch) ==
  IF Len(ch.toolResults) = 0
  THEN ChatDone(pr, ch, [OkRet(NoEnv) EXCEPT
                 !.text = IF ch.finalResponse = <<>> THEN Fallback ELSE ch.finalResponse])
  ELSE CompletionCall(pr, [ch EXCEPT !.messages =
         @ \o <<AssistantTurn(ch.content), UserTurn(<<>>, ch.toolResults)>>])

ChatStep(p, out) ==
  /\ procs' = [procs EXCEPT ![p] = out.pr]
  /\ Broadcast(out.ev)
  /\ chat' = [chat EXCEPT ![p] = out.ch]

\* a caller invokes chat(sessionId, userMessage, history)
ChatBegin(p, k) ==
  LET pr == [IdleProc EXCEPT !.op = "chat", !.key = k]
      ch == [ChatIdle EXCEPT !.messages = <<UserTurn(<<Text(<<"msg">>)>>, <<>>)>>]
  IN
  /\ procs[p].pc = "idle"
  /\ Runnable(p)
  /\ IF ~client
     THEN ChatStep(p, ChatDone(pr, ch, [OkRet(NoEnv) EXCEPT !.text = ConfigureMessage]))
     ELSE IF activeSandboxes[k] = NoEnv
     THEN ChatStep(p, [CallService(pr, [ch EXCEPT !.phase = "init"], "createSandbox", NoArg)
                         EXCEPT !.ev = <<Activity(k, "terminal", NoEnv)>> \o @])
     ELSE ChatStep(p, FileStateNext(pr, ch))
  /\ UNCHANGED <<lifecycle, world, createCalls, now, client, versions, activities, cast, budget>>

\* the answer to a request without sessionId or message
Rejected == [NoRet EXCEPT !.st = "invalid", !.msg = "sessionId and message are required"]

\* the status POST /api/chat answers with
ChatStatus(pr) ==
  IF pr.ret.st = "invalid" THEN 400 ELSE IF pr.ret.st = "ok" THEN 200 ELSE 500

\* (variant: only the sessionId is validated)
PostChatSessionOnly(p, sid, message) ==
  IF sid = NoKey
  THEN /\ procs[p].pc = "idle"
       /\ Runnable(p)
       /\ procs' = [procs EXCEPT ![p] = [IdleProc EXCEPT !.op = "postChat", !.ret = Rejected]]
       /\ UNCHANGED <<lifecycle, world, createCalls, events, sent, now, chat, client, versions, activities,
                      cast, budget>>
  ELSE ChatBegin(p, sid)

\* POST /api/chat with body {sessionId, message, history}
PostChat(p, sid, message) ==
  IF sid = NoKey \/ message = ""
  THEN /\ procs[p].pc = "idle"
       /\ Runnable(p)
       /\ procs' = [procs EXCEPT ![p] = [IdleProc EXCEPT !.op = "postChat", !.ret = Rejected]]
       /\ UNCHANGED <<lifecycle, world, createCalls, events, sent, now, chat, client, versions, activities,
                      cast, budget>>
  ELSE ChatBegin(p, sid)

\* a SandboxService call returned or threw into initializeSandbox, getFileState or executeTool
ChatResume(p) ==
  LET pr == procs[p] ch == chat[p] IN
  /\ pr.pc = "ret"
  /\ ChatStep(p, CASE ch.phase = "init" -> InitNext(pr, ch)
                   [] ch.phase = "files" -> FileStateNext(pr, ch)
                   [] OTHER -> ToolNext(pr, ch))
  /\ UNCHANGED <<lifecycle, world, createCalls, now, client, versions, activities, cast, budget>>

\* the completion port answers
CompletionReturn(p) ==
  LET pr == procs[p] ch == chat[p] IN
  /\ pr.pc = "completion"
  /\ Runnable(p)
  /\ \/ \E r \in Responses :
          /\ Len(SelectSeq(r, LAMBDA b : b.type = "tool_use")) > 0 => ch.rounds < MaxRounds
          /\ ChatStep(p, [pr |-> [pr EXCEPT !.pc = "block"], ev |-> <<>>,
                          ch |-> [ch EXCEPT !.port = "ok",
                                            !.content = [i \in 1..Len(r) |->
                                                [r[i] EXCEPT !.id = IF r[i].type = "tool_use"
                                                                    THEN 10 * ch.rounds + i ELSE 0]],
                                            !.idx = 1, !.toolResults = <<>>]])
     \/ ChatStep(p, CompletionThrew(pr, ch))
  /\ UNCHANGED <<lifecycle, world, createCalls, now, client, versions, activities, cast, budget>>

\* one iteration of `for (const block of response.content)`, or the code after the loop
ChatBlock(p) ==
  LET pr == procs[p] ch == chat[p] IN
  /\ pr.pc = "block"
  /\ ChatStep(p, IF ch.idx > Len(ch.content) THEN TurnEnd(pr, ch)
                 ELSE IF ch.content[ch.idx].type = "text"
                 THEN [pr |-> pr, ev |-> <<>>,
                       ch |-> [ch EXCEPT !.finalResponse = @ \o ch.content[ch.idx].text,
                                         !.idx = @ + 1]]
                 ELSE ToolBegin(pr, ch))
  /\ UNCHANGED <<lifecycle, world, createCalls, now, client, versions, activities, cast, budget>>

\* the SandboxService methods suspended on a port resume
ServiceReturn(p) ==
  \/ ProbeReturn(p)
  \/ ConnectReturn(p)
  \/ ReprobeReturn(p)
  \/ CreateReturn(p)
  \/ RunReturn(p)
  \/ WriteReturn(p)
  \/ KeepAliveProbeReturn(p)
  \/ KillReturn(p)

\* the lifecycle manager under concurrent callers of its public methods
\* (sessions are interchangeable: the callers address the first one, and up to
\* MaxOps operations are started in a run)
ClientKeys == {1}

Next ==
  \/ \E p \in Procs, k \in ClientKeys : Begin(p, "createSandbox", k, NoArg)
  \/ \E p \in Procs, k \in ClientKeys, c \in ClientCommands :
        Begin(p, "executeCommand", k, CommandArg(c))
  \/ \E p \in Procs, k \in ClientKeys : Begin(p, "writeFile", k, FileArg("a.txt", "x"))
  \/ \E p \in Procs, k \in ClientKeys : KeepAlive(p, k)
  \/ \E p \in Procs, t \in timers : TimerFire(p, t)
  \/ \E p \in Procs, k \in ClientKeys : CloseSandbox(p, k)
  \/ \E p \in Procs, k \in ClientKeys : GetSandboxStatus(p, k)
  \/ \E p \in Procs : ServiceReturn(p)
  \/ \E e \in EnvIds : EnvDies(e)
  \/ Tick

Spec == Init /\ [][Next]_vars

\* one chat invocation on the first session, next to other callers of the
\* lifecycle manager who start up to MaxChatOps operations on the same session
ChatProc == 1
ChatKey == 1
Messages == {"", "msg"}

NextChat ==
  \/ \E sid \in {NoKey, ChatKey}, message \in Messages : PostChat(ChatProc, sid, message)
  \/ ChatResume(ChatProc)
  \/ CompletionReturn(ChatProc)
  \/ ChatBlock(ChatProc)
  \/ ReadReturn(ChatProc)
  \/ ListReturn(ChatProc)
  \/ SleepReturn(ChatProc)
  \/ \E p \in Procs \ {ChatProc}, k \in {ChatKey} : Begin(p, "createSandbox", k, NoArg)
  \/ \E p \in Procs \ {ChatProc}, t \in timers : TimerFire(p, t)
  \/ \E p \in Procs \ {ChatProc}, k \in {ChatKey} : CloseSandbox(p, k)
  \/ \E p \in Procs : ServiceReturn(p)
  \/ \E e \in EnvIds : EnvDies(e)

SpecChat == InitChat /\ [][NextChat]_vars

\* --------------------------------------------------------------- versions
\* Array.prototype.sort((a, b) => a.number - b.number): stable, ascending by number
RECURSIVE SortByNumber(_)
SortByNumber(vs) ==
  IF vs = <<>> THEN <<>>
  ELSE LET rest == SortByNumber(Tail(vs))
           v == Head(vs)
       IN  SelectSeq(rest, LAMBDA w : w.number < v.number) \o <<v>>
             \o SelectSeq(rest, LAMBDA w : w.number >= v.number)

\* (variant: the rows of every session, not only the given one)
getAllVersions(k) == SortByNumber(versions)

\* db.getVersionsBySession(sessionId)
getVersionsBySession(k) == SortByNumber(SelectSeq(versions, LAMBDA v : v.sessionId = k))

\* db.getVersion(id): the row, or none
HasVersion(id) == \E i \in DOMAIN versions : versions[i].id = id
getVersion(id) == versions[CHOOSE i \in DOMAIN versions : versions[i].id = id]

\* uuidv4(): an id no row has
NewVersionId == Len(versions) + 1

\* VersionService.createVersion(sessionId, filesystemSnapshot, chatHistory)
CreateVersion(k, snapshot) ==
  /\ Len(versions) < MaxVersions
  /\ LET vs == getVersionsBySession(k)
         nextNumber == Len(vs) + 1
         version == [id |-> NewVersionId, sessionId |-> k,
                     parentVersionId |-> IF vs = <<>> THEN NoVersion ELSE vs[Len(vs)].id,
                     number |-> nextNumber, filesystemSnapshot |-> snapshot]
     IN  versions' = Append(versions, version)
  /\ UNCHANGED <<lifecycle, world, createCalls, events, sent, now, procs, chat, client, budget, cast, activities>>

\* VersionService.duplicateVersion(versionId)
DuplicateVersion(id) ==
  /\ Len(versions) < MaxVersions
  /\ IF ~HasVersion(id)
     THEN UNCHANGED versions
     ELSE LET source == getVersion(id)
              vs == getVersionsBySession(source.sessionId)
              nextNumber == Len(vs) + 1
              duplicate == [id |-> NewVersionId, sessionId |-> source.sessionId,
                            parentVersionId |-> source.id, number |-> nextNumber,
                            filesystemSnapshot |-> source.filesystemSnapshot]
          IN  versions' = Append(versions, duplicate)
  /\ UNCHANGED <<lifecycle, world, createCalls, events, sent, now, procs, chat, client, budget, cast, activities>>

NextVersions ==
  \/ \E k \in Keys, snapshot \in Snapshots : CreateVersion(k, snapshot)
  \/ \E id \in 1..(MaxVersions + 1) : DuplicateVersion(id)

SpecVersions == Init /\ [][NextVersions]_vars

\* ------------------------------------------------------------ broadcaster
\* index.ts / part_011: setBroadcastCallback(broadcastActivity)
SetBroadcastCallback ==
  /\ ~broadcastCallback
  /\ broadcastCallback' = TRUE
  /\ UNCHANGED <<lifecycle, world, createCalls, events, sent, now, procs, chat, client, budget,
                 sessionConnections, readyState, versions, activities>>

\* wss.on('connection'): a WebSocket connects with ?sessionId=k, or without a sessionId
WsConnect(s, k) ==
  /\ readyState[s] = "new"
  /\ \A r \in Sockets : r < s => readyState[r] # "new"
  /\ IF k = NoKey
     THEN /\ readyState' = [readyState EXCEPT ![s] = "closed"]
          /\ UNCHANGED sessionConnections
     ELSE /\ readyState' = [readyState EXCEPT ![s] = "open"]
          /\ sessionConnections' = [sessionConnections EXCEPT ![k] = @ \cup {s}]
  /\ UNCHANGED <<lifecycle, world, createCalls, events, sent, now, procs, chat, client, budget,
                 broadcastCallback, versions, activities>>

\* the peer goes away: the socket leaves the OPEN state, its 'close' event is pending
WsClosing(s) ==
  /\ readyState[s] = "open"
  /\ readyState' = [readyState EXCEPT ![s] = "closing"]
  /\ UNCHANGED <<lifecycle, world, createCalls, events, sent, now, procs, chat, client, budget,
                 sessionConnections, broadcastCallback, versions, activities>>

\* ws.on('close'): the socket is removed from its session's set
WsClosed(s) ==
  /\ readyState[s] = "closing"
  /\ readyState' = [readyState EXCEPT ![s] = "closed"]
  /\ sessionConnections' = [k \in Keys |-> sessionConnections[k] \ {s}]
  /\ UNCHANGED <<lifecycle, world, createCalls, events, sent, now, procs, chat, client, budget,
                 broadcastCallback, versions, activities>>

\* the server with its WebSocket clients: every session's caller issues one request at a
\* time (a request or timer callback for a session starts when none is in flight for it),
\* requests of different sessions overlap
InitCast ==
  /\ activeSandboxes = [k \in Keys |-> NoEnv]
  /\ sandboxIds = [k \in Keys |-> NoEnv]
  /\ lastActivityTime = [k \in Keys |-> NoTime]
  /\ keepAliveIntervals = [k \in Keys |-> NoTimer]
  /\ timers = {}
  /\ envState = [e \in EnvIds |-> "free"]
  /\ envOwner = [e \in EnvIds |-> 0]
  /\ envFiles = [e \in EnvIds |-> [f \in Paths |-> NoFile]]
  /\ createCalls = [k \in Keys |-> 0]
  /\ events = [k \in Keys |-> <<>>]
  /\ now = 0
  /\ procs = [p \in Procs |-> IdleProc]
  /\ chat = [p \in Procs |-> ChatIdle]
  /\ client = TRUE
  /\ budget = MaxCastOps
  /\ sessionConnections = [k \in Keys |-> {}]
  /\ readyState = [s \in Sockets |-> "new"]
  /\ sent = [s \in Sockets |-> <<>>]
  /\ broadcastCallback = FALSE
  /\ versions = <<>>
  /\ activities = [k \in Keys |-> <<>>]

SessionIdle(k) == \A q \in Procs : procs[q].pc \in {"idle", "done"} \/ procs[q].key # k

NextCast ==
  \/ SetBroadcastCallback
  \/ \E s \in Sockets, k \in Keys \cup {NoKey} : WsConnect(s, k)
  \/ \E s \in Sockets : WsClosing(s)
  \/ \E s \in Sockets : WsClosed(s)
  \/ \E k \in ClientKeys \cap Procs : SessionIdle(k) /\ Begin(k, "createSandbox", k, NoArg)
  \/ \E k \in ClientKeys \cap Procs : SessionIdle(k) /\ Begin(k, "executeCommand", k, CommandArg("false"))
  \/ \E k \in ClientKeys \cap Procs : SessionIdle(k) /\ KeepAlive(k, k)
  \/ \E t \in timers : t.key \in ClientKeys \cap Procs /\ SessionIdle(t.key) /\ TimerFire(t.key, t)
  \/ \E k \in ClientKeys \cap Procs : SessionIdle(k) /\ CloseSandbox(k, k)
  \/ \E p \in Procs : ProbeReturn(p)
  \/ \E p \in Procs : ConnectReturn(p)
  \/ \E p \in Procs : CreateReturn(p)
  \/ \E p \in Procs : RunReturn(p)
  \/ \E p \in Procs : KeepAliveProbeReturn(p)
  \/ \E p \in Procs : KillReturn(p)
  \/ \E e \in EnvIds : EnvDies(e)

SpecCast == InitCast /\ [][NextCast]_vars

\* the lifecycle manager serving several sessions: the requests and timer callbacks of
\* one session follow one another, those of different sessions overlap
NextSessions ==
  \/ \E k \in Keys \cap Procs : SessionIdle(k) /\ Begin(k, "createSandbox", k, NoArg)
  \/ \E k \in Keys \cap Procs, c \in ClientCommands :
        SessionIdle(k) /\ Begin(k, "executeCommand", k, CommandArg(c))
  \/ \E k \in Keys \cap Procs : SessionIdle(k) /\ Begin(k, "writeFile", k, FileArg("a.txt", "x"))
  \/ \E k \in Keys \cap Procs : SessionIdle(k) /\ KeepAlive(k, k)
  \/ \E t \in timers : t.key \in Procs /\ SessionIdle(t.key) /\ TimerFire(t.key, t)
  \/ \E k \in Keys \cap Procs : SessionIdle(k) /\ CloseSandbox(k, k)
  \/ \E k \in Keys \cap Procs : SessionIdle(k) /\ GetSandboxStatus(k, k)
  \/ \E p \in Procs : ProbeReturn(p)
  \/ \E p \in Procs : ConnectReturn(p)
  \/ \E p \in Procs : CreateReturn(p)
  \/ \E p \in Procs : RunReturn(p)
  \/ \E p \in Procs : WriteReturn(p)
  \/ \E p \in Procs : KeepAliveProbeReturn(p)
  \/ \E p \in Procs : KillReturn(p)
  \/ \E e \in EnvIds : EnvDies(e)
  \/ Tick

SpecSessions == InitCast /\ [][NextSessions]_vars

\* ------------------------------------------------------------- properties
ToolUses(content) == SelectSeq(content, LAMBDA b : b.type = "tool_use")
Creating(k) == {p \in Procs : procs[p].pc = "create" /\ procs[p].key = k}
LiveEnvs(k) == {e \in EnvIds : envOwner[e] = k /\ envState[e] = "live"}
ExpiredEvents(k, e) == {i \in DOMAIN events[k] :
                          events[k][i].type = "sandbox_expired" /\ events[k][i].about = e}

\* C1: overlapping createSandbox calls on one session are serialized: at most one of
\* them has an external Sandbox.create call in flight, the others wait for its result.
C1_OneCreationProceeds == \A k \in Keys : Cardinality(Creating(k)) <= 1

\* C2: every session has at most one created, still-live sandbox at any time.
C2_AtMostOneLiveSandbox == \A k \in Keys : Cardinality(LiveEnvs(k)) <= 1

\* C3: a chat invocation stops at a fixed maximum number of completion round-trips.
\* (the code has no ceiling at all; RoundTripCap stands for any ceiling below the
\* number of round-trips the model explores.)
RoundTripCap == MaxRounds - 1
C3_RoundTripsCapped == \A p \in Procs : chat[p].rounds <= RoundTripCap

\* C4: when a turn with M >= 1 tool invocations has been processed, the next completion
\* call is issued on a conversation extended by that assistant turn and one user turn
\* that holds exactly M results, the i-th with the id of the i-th invocation; and every
\* assistant turn of the conversation is followed by such a turn.
Paired(a, u) ==
  /\ a.role = "assistant"
  /\ u.role = "user"
  /\ Len(ToolUses(a.content)) >= 1
  /\ Len(u.results) = Len(ToolUses(a.content))
  /\ \A i \in 1..Len(u.results) :
       /\ u.results[i].type = "tool_result"
       /\ u.results[i].tool_use_id = ToolUses(a.content)[i].id
C4_ToolResultPairing ==
  [][\A p \in Procs :
       LET m == chat[p].messages n == Len(chat[p].messages) m2 == chat'[p].messages IN
       /\ (procs[p].pc = "block" /\ procs'[p].pc = "completion") =>
            /\ Len(m2) = n + 2
            /\ SubSeq(m2, 1, n) = m
            /\ m2[n + 1].content = chat[p].content
            /\ Paired(m2[n + 1], m2[n + 2])
       /\ \A i \in 1..Len(m2) :
            m2[i].role = "assistant" => i < Len(m2) /\ Paired(m2[i], m2[i + 1])]_vars
C4_Witness ==
  \E p \in Procs :
    /\ procs[p].pc = "completion"
    /\ Len(chat[p].messages) >= 3
    /\ Len(chat[p].messages[3].results) = 2
    /\ chat[p].messages[3].results[1].content[1] = "Error: "
    /\ chat[p].messages[3].results[2].content = <<"Unknown tool: ", "deploy">>

\* C5: one death of a sandbox produces exactly one sandbox_expired activity, also when
\* several operations detect it concurrently.
C5_ExpiredOncePerDeath ==
  \A k \in Keys, e \in EnvIds : Cardinality(ExpiredEvents(k, e)) <= 1

C7_CloseRemovesHandle ==
  [][\A p \in Procs :
       (procs[p].pc = "kill" /\ procs'[p].pc = "done")
         => activeSandboxes'[procs[p].key] = NoEnv]_vars

\* C8: the tool invocations of a turn run one after the other in block order: while
\* invocation i is being served, every earlier invocation of the turn has its result and
\* no later one has; and when write_file(a.txt, x) and a later run_command(cat a.txt) of
\* the same turn were served by the same sandbox, the command's output is x.
C8_SequentialTools ==
  \A p \in Procs :
    LET ch == chat[p] IN
    /\ (procs[p].op = "chat" /\ ch.idx \in 1..Len(ch.content)
          /\ procs[p].pc \notin {"done", "completion"}) =>
         Len(ch.toolResults) = Len(ToolUses(SubSeq(ch.content, 1, ch.idx - 1)))
    /\ \A i, j \in 1..Len(ch.toolResults) :
         ( /\ i < j /\ Len(ch.content) >= j
           /\ ch.content[i].name = "write_file" /\ ch.content[i].input = FileArg("a.txt", "x")
           /\ ch.content[j].name = "run_command" /\ ch.content[j].input = CommandArg("cat a.txt")
           /\ ch.toolResults[i].content = <<"Written: ", "a.txt">>
           /\ ch.toolResults[j].env # NoEnv
           /\ ch.toolResults[j].env = ch.toolResults[i].env )
         => ch.toolResults[j].content = <<"x">>
C8_Witness ==
  \E p \in Procs :
    /\ Len(chat[p].toolResults) = 2
    /\ chat[p].toolResults[1].content = <<"Written: ", "a.txt">>
    /\ chat[p].toolResults[2].content = <<"x">>
    /\ chat[p].toolResults[2].env = chat[p].toolResults[1].env

\* C9: a tool invocation that fails (the port throws, no usable sandbox, non-zero exit
\* code) gives its failure text as its result and chat goes on: the next block of the
\* turn is processed, and after the last block the next completion call is issued.
FailureText(r) == r[1] \in {"Error: ", "Error (exit "}
C9_ToolFailureNotFatal ==
  [][\A p \in Procs :
       LET pr == procs[p] ch == chat[p] IN
       /\ ( /\ pr.op = "chat" /\ pr.pc = "ret" /\ ch.phase = "tool"
            /\ (pr.ret.st = "err" \/ (ch.stage = "run" /\ pr.ret.exitCode # 0)) )
          => /\ procs'[p].pc = "block"
             /\ chat'[p].idx = ch.idx + 1
             /\ Len(chat'[p].toolResults) = Len(ch.toolResults) + 1
             /\ FailureText(chat'[p].toolResults[Len(ch.toolResults) + 1].content)
       /\ (pr.pc = "block" /\ ch.idx > Len(ch.content) /\ Len(ch.toolResults) > 0)
          => procs'[p].pc = "completion" /\ chat'[p].rounds = ch.rounds + 1]_vars
C9_Witness ==
  \E p \in Procs :
    /\ procs[p].pc = "completion"
    /\ chat[p].rounds = 2
    /\ Len(chat[p].messages[3].results) = 2
    /\ chat[p].messages[3].results[1].content = <<"Error: ", NoSandboxMessage("executeCommand")>>
    /\ chat[p].messages[2].content[1].name = "write_file"

\* C10: once a completion call has failed, the chat invocation is over with that error:
\* it returned no text, and it makes no further completion call or tool dispatch.
C10_CompletionFailureAborts ==
  \A p \in Procs :
    chat[p].port = "failed" =>
      /\ procs[p].op = "chat" /\ procs[p].pc = "done"
      /\ procs[p].ret.st = "err" /\ procs[p].ret.msg = "completion failed"
      /\ procs[p].ret.text = <<>>
C10_Witness ==
  \E p \in Procs :
    /\ chat[p].port = "failed"
    /\ chat[p].rounds = 2
    /\ Len(chat[p].messages) = 3

\* C11: when Sandbox.create fails inside createSandbox, the caller gets that error, no
\* further create call is issued by the call, and the session is left without handle,
\* recorded id, last-activity time and keep-alive timer.
C11_CreateFailureLeavesNone ==
  [][\A p \in Procs :
       LET k == procs[p].key IN
       (procs[p].pc = "create" /\ procs'[p].pc \in {"done", "ret"} /\ procs'[p].ret.st = "err")
         => /\ procs'[p].ret = ErrRet("create failed")
            /\ createCalls'[k] = createCalls[k] + 1
            /\ activeSandboxes'[k] = NoEnv
            /\ sandboxIds'[k] = NoEnv
            /\ lastActivityTime'[k] = NoTime
            /\ keepAliveIntervals'[k] = NoTimer
            /\ \A t \in timers' : t.key # k]_vars

\* C12: a createSandbox call whose getOrCreateSandbox succeeds (the cached handle answers
\* the probe, or the recorded id is reconnected and answers) returns the id of that
\* sandbox, issues no Sandbox.create and emits no activity; it goes on to Sandbox.create
\* only after the acquisition failed, cleaned the session up and emitted sandbox_expired.
C12_ProvisionShortCircuit ==
  [][\A p \in Procs :
       LET pr == procs[p] k == pr.key IN
       (pr.call = "createSandbox" /\ pr.pc \in {"probe", "reprobe"} /\ procs'[p] # pr)
         => \/ /\ procs'[p].pc \in {"done", "ret"}
               /\ procs'[p].ret = OkRet(pr.h)
               /\ envState[pr.h] = "live"
               /\ createCalls' = createCalls
               /\ events' = events
               /\ UNCHANGED world
            \/ /\ procs'[p].pc = "create"
               /\ events'[k] = events[k] \o <<Activity(k, "sandbox_expired", pr.h),
                                               Activity(k, "terminal", NoEnv)>>
               /\ activeSandboxes'[k] = NoEnv
               /\ sandboxIds'[k] = NoEnv]_vars
C12_Witness ==
  \E p \in Procs, k \in Keys :
    /\ procs[p].op = "createSandbox" /\ procs[p].key = k /\ procs[p].pc = "done"
    /\ procs[p].ret = OkRet(activeSandboxes[k])
    /\ activeSandboxes[k] # NoEnv
    /\ createCalls[k] = 1
    /\ budget = MaxOps - 2
    /\ Len(events[k]) = 3

\* C13: when the probe of keepAlive answers, the call either returns alive=false with the
\* session's handle removed and one sandbox_expired activity emitted, or (only for a
\* live sandbox) returns alive=true with the last-activity time set to the current time,
\* the handle table untouched and no activity emitted.
C13_KeepAliveOutcome ==
  [][\A p \in Procs :
       LET pr == procs[p] k == pr.key IN
       (pr.pc = "kaprobe" /\ procs'[p] # pr)
         => /\ procs'[p].pc = "done"
            /\ \/ /\ procs'[p].ret.msg = "alive=false"
                  /\ activeSandboxes'[k] = NoEnv
                  /\ events'[k] = Append(events[k], Activity(k, "sandbox_expired", pr.h))
               \/ /\ procs'[p].ret.msg = "alive=true"
                  /\ envState[pr.h] = "live"
                  /\ lastActivityTime'[k] = now
                  /\ activeSandboxes' = activeSandboxes
                  /\ events' = events]_vars
C13_Witness ==
  \E p \in Procs, k \in Keys :
    /\ procs[p].op = "keepAlive" /\ procs[p].key = k /\ procs[p].pc = "done"
    /\ procs[p].ret.msg = "alive=false"
    /\ createCalls[k] = 1
    /\ activeSandboxes[k] = NoEnv
    /\ Len(events[k]) = 4
    /\ events[k][4].type = "sandbox_expired"

\* C14: a createSandbox call that finds no handle for the session (it expired or was
\* released) never returns the sandbox recorded earlier: it goes on to Sandbox.create,
\* and the id it returns from there is one no earlier sandbox had.
C14_FreshAfterRelease ==
  [][\A p \in Procs :
       LET pr == procs[p] IN
       /\ (pr.call = "createSandbox" /\ pr.pc = "reprobe")
            => procs'[p].pc \in {"reprobe", "create"}
       /\ (pr.call = "createSandbox" /\ pr.pc = "create" /\ procs'[p].ret.st = "ok")
            => envState[procs'[p].ret.id] = "free"]_vars

\* C15: a chat invocation that returns normally returns a non-empty text: the text
\* accumulated over all turns, or the fixed fallback text when no turn carried text.
C15_FinalTextNonEmpty ==
  \A p \in Procs :
    (procs[p].op = "chat" /\ procs[p].pc = "done" /\ procs[p].ret.st = "ok")
      => /\ procs[p].ret.text # <<>>
         /\ (client /\ chat[p].finalResponse = <<>>) => procs[p].ret.text = Fallback
         /\ chat[p].finalResponse # <<>> => procs[p].ret.text = chat[p].finalResponse
C15_Witness ==
  \E p \in Procs :
    /\ procs[p].op = "chat" /\ procs[p].pc = "done" /\ procs[p].ret.st = "ok"
    /\ chat[p].rounds = 2
    /\ chat[p].finalResponse = <<>>
    /\ procs[p].ret.text = Fallback

\* C16: before its first completion call, a chat invocation whose provisioning fails, or
\* whose SandboxService call fails to acquire the sandbox, ends with that error and makes
\* no completion call.
C16_AcquisitionFailureAborts ==
  [][\A p \in Procs :
       LET pr == procs[p] ch == chat[p] IN
       ( /\ pr.op = "chat" /\ pr.pc = "ret" /\ ch.rounds = 0
         /\ pr.ret.st = "err"
         /\ (ch.phase = "init" \/ pr.ret.msg = NoSandboxMessage(pr.call)) )
         => /\ procs'[p].pc = "done"
            /\ procs'[p].ret = ErrRet(pr.ret.msg)
            /\ chat'[p].rounds = 0]_vars

\* C17: a write_file invocation whose content argument is missing or empty gets an error
\* text as its result in the same step: no SandboxService call is started (no mkdir, no
\* write), the sandboxes' files are unchanged, and the only activity emitted is tool_call.
C17_EmptyContentRejected ==
  [][\A p \in Procs :
       LET pr == procs[p] ch == chat[p] k == pr.key IN
       ( /\ pr.op = "chat" /\ pr.pc = "block" /\ ch.idx \in 1..Len(ch.content)
         /\ ch.content[ch.idx].type = "tool_use"
         /\ ch.content[ch.idx].name = "write_file"
         /\ ch.content[ch.idx].input.content = "" )
         => /\ procs'[p].pc = "block" /\ procs'[p].call = "none"
            /\ chat'[p].idx = ch.idx + 1
            /\ Len(chat'[p].toolResults) = Len(ch.toolResults) + 1
            /\ chat'[p].toolResults[Len(ch.toolResults) + 1].content[1] = "Error: "
            /\ events'[k] = Append(events[k], Activity(k, "tool_call", NoEnv))
            /\ UNCHANGED <<world, lifecycle>>]_vars
C17_Witness ==
  \E p \in Procs, e \in EnvIds :
    /\ procs[p].op = "chat" /\ procs[p].pc = "block"
    /\ Len(chat[p].toolResults) = 1
    /\ chat[p].content[1].name = "write_file" /\ chat[p].content[1].input.content = ""
    /\ chat[p].toolResults[1].content = <<"Error: ", "content parameter is required">>
    /\ activeSandboxes[procs[p].key] = e /\ envState[e] = "live"
    /\ envFiles[e]["a.txt"] = NoFile

\* C18 (as claimed): when executeCommand returns {stdout, stderr, exitCode} to a
\* run_command invocation, the invocation's result is stdout if exitCode = 0 and
\* 'Error (exit N): <stderr>' otherwise, and chat goes on with the next block.
C18_RunCommandResult ==
  [][\A p \in Procs :
       LET pr == procs[p] ch == chat[p] n == Len(ch.toolResults) IN
       (pr.op = "chat" /\ pr.pc = "ret" /\ ch.phase = "tool" /\ ch.stage = "run"
          /\ pr.ret.st = "ok")
         => /\ procs'[p].pc = "block"
            /\ Len(chat'[p].toolResults) = n + 1
            /\ chat'[p].toolResults[n + 1].content =
                 IF pr.ret.exitCode = 0
                 THEN <<pr.ret.stdout>>
                 ELSE <<"Error (exit ", ToString(pr.ret.exitCode), "): ", pr.ret.stderr>>]_vars

\* C18 (amended): the same, except that with exitCode = 0 and an empty stdout the result
\* is the fixed text 'Command completed'.
C18_RunCommandResultOrCompleted ==
  [][\A p \in Procs :
       LET pr == procs[p] ch == chat[p] n == Len(ch.toolResults) IN
       (pr.op = "chat" /\ pr.pc = "ret" /\ ch.phase = "tool" /\ ch.stage = "run"
          /\ pr.ret.st = "ok")
         => /\ procs'[p].pc = "block"
            /\ Len(chat'[p].toolResults) = n + 1
            /\ chat'[p].toolResults[n + 1].content =
                 IF pr.ret.exitCode = 0 /\ pr.ret.stdout # ""
                 THEN <<pr.ret.stdout>>
                 ELSE IF pr.ret.exitCode = 0
                 THEN <<"Command completed">>
                 ELSE <<"Error (exit ", ToString(pr.ret.exitCode), "): ", pr.ret.stderr>>]_vars
C18_Witness ==
  \E p \in Procs :
    /\ procs[p].op = "chat" /\ procs[p].pc = "block"
    /\ Len(chat[p].toolResults) = 2
    /\ chat[p].content[2].input = CommandArg("true")
    /\ chat[p].toolResults[2].content = <<"Command completed">>

\* C19: a tool invocation whose name is neither write_file nor run_command gets the result
\* 'Unknown tool: <name>' in the same step, with its own id: no SandboxService call is
\* started, nothing is thrown, the sandboxes and the lifecycle state are unchanged, and
\* exactly one result is added for it.
C19_UnknownTool ==
  [][\A p \in Procs :
       LET pr == procs[p] ch == chat[p] k == pr.key n == Len(ch.toolResults) IN
       ( /\ pr.op = "chat" /\ pr.pc = "block" /\ ch.idx \in 1..Len(ch.content)
         /\ ch.content[ch.idx].type = "tool_use"
         /\ ch.content[ch.idx].name \notin {"write_file", "run_command"} )
         => /\ procs'[p].pc = "block" /\ procs'[p].call = "none"
            /\ chat'[p].idx = ch.idx + 1
            /\ Len(chat'[p].toolResults) = n + 1
            /\ SubSeq(chat'[p].toolResults, 1, n) = ch.toolResults
            /\ chat'[p].toolResults[n + 1].content = <<"Unknown tool: ", ch.content[ch.idx].name>>
            /\ chat'[p].toolResults[n + 1].tool_use_id = ch.content[ch.idx].id
            /\ events'[k] = Append(events[k], Activity(k, "tool_call", NoEnv))
            /\ UNCHANGED <<world, lifecycle>>]_vars
C19_Witness ==
  \E p \in Procs :
    /\ procs[p].op = "chat" /\ procs[p].pc = "block"
    /\ chat[p].idx = 4
    /\ Len(chat[p].toolResults) = 2
    /\ chat[p].toolResults[1].content[1] = "Error (exit "
    /\ chat[p].toolResults[2].content = <<"Unknown tool: ", "deploy">>
    /\ chat[p].toolResults[2].tool_use_id = chat[p].content[3].id

\* C20: when a chat invocation has returned its text, the activity stream of the session
\* holds exactly one tool_call activity per tool invocation of the conversation and
\* exactly one file_change activity for a.txt per write_file invocation that wrote it.
Invocations(m) ==
  UNION {{<<i, j>> : j \in {n \in DOMAIN m[i].content : m[i].content[n].type = "tool_use"}} :
           i \in {n \in DOMAIN m : m[n].role = "assistant"}}
Written(m) ==
  UNION {{<<i, j>> : j \in {n \in DOMAIN m[i].results :
                              m[i].results[n].content = <<"Written: ", "a.txt">>}} :
           i \in DOMAIN m}
C20_OneActivityPerInvocation ==
  \A p \in Procs :
    LET k == procs[p].key ev == events[k] IN
    (procs[p].op = "chat" /\ procs[p].pc = "done" /\ procs[p].ret.st = "ok" /\ client)
      => /\ Cardinality({i \in DOMAIN ev : ev[i].type = "tool_call"})
              = Cardinality(Invocations(chat[p].messages))
         /\ Cardinality({i \in DOMAIN ev : ev[i].type = "file_change" /\ ev[i].path = "a.txt"})
              = Cardinality(Written(chat[p].messages))
\* the sessions an activity is published for in the step
Published == {k \in Keys : events'[k] # events[k]}

\* C21: publishing an activity for a session that has no subscriber is a no-op of the
\* broadcaster: nothing is sent on any socket and the connection table, the sockets'
\* states and the callback stay as they were, while the publishing operation still
\* records its activity and goes on.
C21_NoSubscriberNoOp ==
  [][(Published # {} /\ \A k \in Published : sessionConnections[k] = {})
       => (sent' = sent /\ UNCHANGED cast)]_vars

C21_Witness ==
  /\ broadcastCallback
  /\ \E k \in Keys : events[k] # <<>> /\ sessionConnections[k] = {}
  /\ \E s \in Sockets : readyState[s] = "open"
  /\ \A s \in Sockets : readyState[s] \in {"new", "open"} /\ sent[s] = <<>>

\* the rows of session k, and the highest-numbered of them
RowsOf(vs, k) == {i \in DOMAIN vs : vs[i].sessionId = k}
Highest(vs, k) == CHOOSE i \in RowsOf(vs, k) : \A j \in RowsOf(vs, k) : vs[j].number <= vs[i].number
Added == versions'[Len(versions')]

\* C22: after every createVersion or duplicateVersion the versions of each session are
\* numbered exactly 1..n and the new version has number n + 1; a created version's parent
\* is the highest-numbered version the session had (none for the first), a duplicate's
\* parent is its source and it carries the source's filesystem snapshot.
C22_VersionNumbering ==
  [][/\ \A k \in Keys :
          /\ {versions'[i].number : i \in RowsOf(versions', k)} = 1..Cardinality(RowsOf(versions', k))
          /\ \A i, j \in RowsOf(versions', k) : versions'[i].number = versions'[j].number => i = j
     /\ Len(versions') = Len(versions) + 1 =>
          Added.number = Cardinality(RowsOf(versions, Added.sessionId)) + 1
     /\ \A k \in Keys, snapshot \in Snapshots :
          CreateVersion(k, snapshot) =>
            /\ Added.sessionId = k /\ Added.filesystemSnapshot = snapshot
            /\ Added.parentVersionId =
                 IF RowsOf(versions, k) = {} THEN NoVersion ELSE versions[Highest(versions, k)].id
     /\ \A id \in 1..(MaxVersions + 1) :
          (DuplicateVersion(id) /\ HasVersion(id)) =>
            /\ Added.parentVersionId = id
            /\ Added.sessionId = getVersion(id).sessionId
            /\ Added.filesystemSnapshot = getVersion(id).filesystemSnapshot]_vars

\* a session holds a created first version, a later version of another session, and a
\* duplicate of the first one
C22_Witness ==
  /\ Len(versions) = 3
  /\ versions[1].parentVersionId = NoVersion
  /\ versions[2].sessionId # versions[1].sessionId
  /\ versions[3].parentVersionId = versions[1].id /\ versions[3].number = 2
  /\ versions[3].filesystemSnapshot = versions[1].filesystemSnapshot

\* C23: a POST /api/chat whose sessionId or message is missing or empty is answered 400
\* and never reaches the loop: no sandbox is provisioned, no completion is requested, no
\* activity is recorded or sent, and no table of the service changes.
C23_InvalidChatRejected ==
  [][\A p \in Procs, sid \in {NoKey, ChatKey}, message \in Messages :
       (PostChat(p, sid, message) /\ (sid = NoKey \/ message = "")) =>
         /\ ChatStatus(procs'[p]) = 400
         /\ procs'[p].pc = "idle" /\ chat'[p] = chat[p]
         /\ UNCHANGED <<lifecycle, world, createCalls, events, sent>>]_vars

C23_Witness ==
  /\ procs[ChatProc].op = "postChat" /\ ChatStatus(procs[ChatProc]) = 400
  /\ chat[ChatProc] = ChatIdle
  /\ \A k \in Keys : createCalls[k] = 0 /\ events[k] = <<>>

\* C24: a keep-alive probe started against handle H of session k that finishes when
\* another handle H' has replaced H leaves H' alone: the handle, the recorded id and the
\* timer of k stay and no sandbox_expired is emitted for k.
C24_StaleProbeHarmless ==
  [][\A p \in Procs :
       LET pr == procs[p] k == pr.key IN
       ( /\ pr.pc = "kaprobe" /\ procs'[p].pc # "kaprobe"
         /\ activeSandboxes[k] \notin {NoEnv, pr.h} ) =>
           /\ activeSandboxes'[k] = activeSandboxes[k]
           /\ sandboxIds'[k] = sandboxIds[k]
           /\ keepAliveIntervals'[k] = keepAliveIntervals[k]
           /\ events'[k] = events[k]]_vars

\* the keep-alive timers registered for session k
TimersOf(k) == {t \in timers : t.key = k}

\* C25: when closeSandbox(k) returns, no keep-alive timer is registered for k.
C25_CloseCancelsTimer ==
  [][\A p \in Procs :
       ( /\ procs'[p].op = "closeSandbox" /\ procs'[p].pc = "done"
         /\ procs'[p] # procs[p] ) =>
           {t \in timers' : t.key = procs'[p].key} = {}]_vars

\* C26: at most one keep-alive timer is registered per session: a keep-alive started for
\* a session that has a timer replaces it.
C26_OneTimerPerKey ==
  \A k \in Keys : Cardinality(TimersOf(k)) <= 1

\* two creations for the session have both started its keep-alive
C26_Witness ==
  \E k \in Keys :
    /\ Cardinality({e \in EnvIds : envOwner[e] = k /\ envState[e] = "live"}) = 2
    /\ \A p \in Procs : procs[p].pc \in {"idle", "done"}
    /\ Cardinality(TimersOf(k)) = 1

\* the error activities recorded after the last tool_call activity
ErrorsSinceToolCall(ev) ==
  LET calls == {i \in DOMAIN ev : ev[i].type = "tool_call"}
      last == CHOOSE i \in calls : \A j \in calls : j <= i
  IN  Cardinality({i \in DOMAIN ev : i > last /\ ev[i].type = "error"})

\* C27: executeTool does not throw: when a sandbox operation of the invocation throws,
\* the invocation ends with the result 'Error: <message>', the next block is processed,
\* and exactly one error activity has been recorded for the invocation (the chat being
\* the only operation on the session).
C27_ToolErrorOnce ==
  [][\A p \in Procs :
       LET pr == procs[p] ch == chat[p] IN
       ( /\ pr.op = "chat" /\ pr.pc = "ret" /\ ch.phase = "tool" /\ pr.ret.st = "err"
         /\ budget = MaxChatOps ) =>
           /\ procs'[p].pc = "block"
           /\ Len(chat'[p].toolResults) = Len(ch.toolResults) + 1
           /\ chat'[p].toolResults[Len(ch.toolResults) + 1].content = <<"Error: ", pr.ret.msg>>
           /\ ErrorsSinceToolCall(events'[pr.key]) = 1]_vars

\* the activities the step appends to the record of session k
Emitted(k) == SubSeq(events'[k], Len(events[k]) + 1, Len(events'[k]))

\* C28: the tool_call activity of an invocation is the first thing the invocation does:
\* the step that dispatches a tool_use block emits it before anything else, with no
\* sandbox operation answered yet; every later step of the invocation (which emits its
\* terminal, file_change and error activities) comes after that tool_call and emits no
\* tool_call, and the next tool_call is emitted only by the next dispatch.
C28_ToolCallFirst ==
  [][\A p \in Procs :
       LET pr == procs[p] ch == chat[p] new == Emitted(pr.key) IN
       (pr.op = "chat" /\ procs'[p] # pr) =>
         IF pr.pc = "block" /\ ch.idx \in 1..Len(ch.content) /\ ch.content[ch.idx].type = "tool_use"
         THEN /\ new # <<>> /\ new[1].type = "tool_call"
              /\ \A i \in 2..Len(new) : new[i].type # "tool_call"
              /\ UNCHANGED world
         ELSE /\ \A i \in 1..Len(new) : new[i].type # "tool_call"
              /\ (ch.phase = "tool" /\ pr.pc # "block" /\ new # <<>>) =>
                   \E i \in DOMAIN events[pr.key] : events[pr.key][i].type = "tool_call"]_vars

\* two invocations have run: tool_call, the first one's terminal and file_change
\* activities, then the second tool_call
C28_Witness ==
  \E k \in Keys : \E i, j, l, m \in DOMAIN events[k] :
    /\ i < j /\ j < l /\ l < m
    /\ events[k][i].type = "tool_call" /\ events[k][j].type = "terminal"
    /\ events[k][l].type = "file_change" /\ events[k][m].type = "tool_call"
    /\ \A n \in (i + 1)..(m - 1) : events[k][n].type # "tool_call"

\* C29: a step in which a lifecycle operation drops what it holds for session k because
\* the sandbox did not answer (the recorded id is discarded, or the handle is removed by
\* anything but closeSandbox) records a sandbox_expired activity for k in that same step,
\* so not later than the step in which the caller gets the error or alive=false.
C29_NoSilentDiscard ==
  [][\A k \in Keys :
       ( \/ sandboxIds[k] # NoEnv /\ sandboxIds'[k] = NoEnv
         \/ /\ activeSandboxes[k] # NoEnv /\ activeSandboxes'[k] = NoEnv
            /\ \A p \in Procs : procs'[p] # procs[p] => procs[p].op # "closeSandbox" ) =>
           \E i \in DOMAIN Emitted(k) : Emitted(k)[i].type = "sandbox_expired"]_vars

\* a keep-alive found the sandbox dead, dropped the handle and answered alive=false
C29_Witness ==
  \E p \in Procs :
    LET k == procs[p].key IN
    /\ procs[p].op \in {"keepAlive", "timer"} /\ procs[p].pc = "done"
    /\ procs[p].ret.msg = "alive=false"
    /\ activeSandboxes[k] = NoEnv /\ sandboxIds[k] = NoEnv
    /\ events[k] # <<>> /\ events[k][Len(events[k])].type = "sandbox_expired"

\* the number of sandbox_expired activities the step records for session k
ExpiredEmitted(k) ==
  Cardinality({i \in DOMAIN Emitted(k) : Emitted(k)[i].type = "sandbox_expired"})

\* C30: an acquisition for a session with no handle but a recorded id first reconnects
\* to that id and then probes the reconnected sandbox. When both succeed the handle is
\* adopted, the activity time is set to the current time, one keep-alive timer runs for
\* the session and the acquisition succeeds; when the connection throws or the probe
\* fails the recorded id (and handle) are dropped, exactly one sandbox_expired is recorded
\* and the acquisition fails.
C30_Reconnect ==
  [][\A p \in Procs :
       LET pr == procs[p] k == pr.key k2 == procs'[p].key
           failed == /\ sandboxIds'[k] = NoEnv /\ activeSandboxes'[k] = NoEnv
                     /\ ExpiredEmitted(k) = 1
                     /\ procs'[p].pc \in {"create", "done", "ret"}
                     /\ procs'[p].pc # "create" => procs'[p].ret.st = "err"
       IN
       /\ ( /\ pr.pc \in {"idle", "done"} /\ procs'[p] # pr
            /\ procs'[p].call \in {"createSandbox", "executeCommand", "writeFile"}
            /\ activeSandboxes[k2] = NoEnv /\ sandboxIds[k2] # NoEnv ) =>
              procs'[p].pc = "connect" /\ procs'[p].h = sandboxIds[k2]
       /\ (pr.pc = "connect" /\ procs'[p] # pr) =>
            \/ procs'[p].pc = "reprobe" /\ procs'[p].h = pr.h /\ UNCHANGED <<lifecycle, events>>
            \/ failed
       /\ (pr.pc = "reprobe" /\ procs'[p] # pr) =>
            \/ /\ activeSandboxes'[k] = pr.h /\ lastActivityTime'[k] = now
               /\ Cardinality({t \in timers' : t.key = k}) = 1
               /\ ExpiredEmitted(k) = 0
               /\ procs'[p].ret.st # "err"
            \/ failed]_vars

\* the reconnection to the recorded id succeeded and its probe is in flight
C30_Witness ==
  \E p \in Procs :
    /\ procs[p].pc = "reprobe"
    /\ activeSandboxes[procs[p].key] = NoEnv
    /\ sandboxIds[procs[p].key] = procs[p].h

\* C31: an acquisition that finds a cached handle and whose probe is answered returns
\* that handle (the one a previous acquisition returned, when nothing replaced it in
\* between) and changes nothing of the lifecycle state but the activity time, which
\* becomes the current time: handle table, recorded id and keep-alive timer stay, and the
\* acquisition emits nothing (executeCommand then echoes its command, nothing else).
C31_AcquireIdempotent ==
  [][\A p \in Procs :
       LET pr == procs[p] k == pr.key IN
       (pr.pc = "probe" /\ procs'[p] # pr /\ ExpiredEmitted(k) = 0) =>
         /\ UNCHANGED <<activeSandboxes, sandboxIds, keepAliveIntervals, timers>>
         /\ lastActivityTime' = [lastActivityTime EXCEPT ![k] = now]
         /\ IF pr.call = "createSandbox"
            THEN procs'[p].ret.st = "ok" /\ procs'[p].ret.id = pr.h
            ELSE procs'[p].pc \in {"run", "write"} /\ procs'[p].h = pr.h
         /\ Emitted(k) = IF pr.call = "executeCommand"
                         THEN <<Activity(k, "terminal", NoEnv)>> ELSE <<>>]_vars

\* two createSandbox calls returned the same sandbox out of a single creation, the
\* second one at a later time
C31_Witness ==
  \E k \in Keys, e \in EnvIds :
    /\ \A p \in Procs : /\ procs[p].op = "createSandbox" /\ procs[p].pc = "done"
                        /\ procs[p].key = k /\ procs[p].ret.id = e
    /\ createCalls[k] = 1 /\ activeSandboxes[k] = e /\ envState[e] = "live"
    /\ now > 0 /\ lastActivityTime[k] = now

\* C32: one missed keep-alive probe does not expire a live handle: when a keep-alive probe
\* of the session's current handle is answered, the sandbox being alive and no probe of
\* the session having failed before, the handle stays.
C32_SingleMissKeepsHandle ==
  [][\A p \in Procs :
       LET pr == procs[p] k == pr.key IN
       ( /\ pr.pc = "kaprobe" /\ procs'[p] # pr
         /\ activeSandboxes[k] = pr.h /\ envState[pr.h] = "live"
         /\ \A i \in DOMAIN events[k] : events[k][i].type # "sandbox_expired" ) =>
           /\ activeSandboxes'[k] = pr.h
           /\ ExpiredEmitted(k) = 0]_vars

C34_OrderedAppendOnly ==
  [][\A k \in Keys :
       /\ activities'[k] = activities[k] \o Emitted(k)
       /\ \A s \in sessionConnections[k] :
            readyState[s] = "open" => sent'[s] = sent[s] \o Emitted(k)
       /\ \A s \in Sockets :
            Len(sent[s]) <= Len(sent'[s]) /\ SubSeq(sent'[s], 1, Len(sent[s])) = sent[s]]_vars

\* the text of the text blocks of a turn, and of the assistant turns of a conversation
RECURSIVE TextOf(_)
TextOf(blocks) ==
  IF blocks = <<>> THEN <<>>
  ELSE (IF Head(blocks).type = "text" THEN Head(blocks).text ELSE <<>>) \o TextOf(Tail(blocks))
RECURSIVE AssistantText(_)
AssistantText(m) ==
  IF m = <<>> THEN <<>>
  ELSE (IF Head(m).role = "assistant" THEN TextOf(Head(m).content) ELSE <<>>)
         \o AssistantText(Tail(m))

\* C35: the text a chat invocation returns is the text of the text blocks of all its
\* assistant turns in order: the turns that requested tools (kept in the conversation)
\* followed by the terminating turn, which requested none; when that text is empty the
\* fixed fallback of C15 stands for it.
C35_TextAccumulated ==
  \A p \in Procs :
    (procs[p].op = "chat" /\ procs[p].pc = "done" /\ procs[p].ret.st = "ok" /\ client) =>
      LET all == AssistantText(chat[p].messages) \o TextOf(chat[p].content) IN
      /\ ToolUses(chat[p].content) = <<>>
      /\ procs[p].ret.text = IF all = <<>> THEN Fallback ELSE all

\* a turn with text and tools was followed by a terminating turn with text
C35_Witness ==
  \E p \in Procs :
    /\ procs[p].op = "chat" /\ procs[p].pc = "done" /\ procs[p].ret.st = "ok"
    /\ chat[p].rounds = 2
    /\ AssistantText(chat[p].messages) = <<"Working">>
    /\ procs[p].ret.text = <<"Working", "Done">>

\* C36: whenever a chat invocation on session k has a completion call in flight, an
\* in-process handle exists for k.
C36_HandleAtCompletion ==
  \A p \in Procs :
    (procs[p].op = "chat" /\ procs[p].pc = "completion") =>
      activeSandboxes[procs[p].key] # NoEnv

\* closeSandbox(k) has returned after removing the handle, nothing else is in flight and
\* no handle has been stored for k since
Released(k, p) ==
  /\ activeSandboxes[k] = NoEnv
  /\ \E q \in Procs \ {p} :
       procs[q].op = "closeSandbox" /\ procs[q].pc = "done" /\ procs[q].key = k
  /\ \A q \in Procs \ {p} : procs[q].pc \in {"idle", "done"}

\* C37: after a completed release of session k and before a new sandbox is provisioned
\* for k, no operation reconnects to the destroyed sandbox and no sandbox_expired
\* activity is recorded for k.
C37_NoExpiryAfterRelease ==
  [][\A p \in Procs :
       LET k == procs'[p].key IN
       (procs'[p] # procs[p] /\ k \in Keys /\ Released(k, p)) =>
         /\ procs'[p].pc # "connect"
         /\ ExpiredEmitted(k) = 0]_vars

\* C38: when no operation is in flight the tables agree for every session: it has a
\* handle exactly when it has an activity time and exactly when it has a keep-alive
\* timer, and the recorded id of a session with a handle is that handle's id.
C38_TablesAgree ==
  (\A p \in Procs : procs[p].pc \in {"idle", "done"}) =>
    \A k \in Keys :
      /\ activeSandboxes[k] # NoEnv <=> lastActivityTime[k] # NoTime
      /\ activeSandboxes[k] # NoEnv <=> keepAliveIntervals[k] # NoTimer
      /\ activeSandboxes[k] # NoEnv <=> TimersOf(k) # {}
      /\ activeSandboxes[k] # NoEnv => sandboxIds[k] = activeSandboxes[k]

\* what the step sends on socket s
SentNow(s) == SubSeq(sent'[s], Len(sent[s]) + 1, Len(sent'[s]))

\* C39: an activity is sent only on a socket that is open and registered for the
\* activity's session: a socket of another session, a socket that is no longer open and
\* a socket registered for no session are sent nothing; a connection made without a
\* sessionId is closed at once and registered nowhere.
C39_SubscriberIsolation ==
  [][\A s \in Sockets :
       /\ Len(sent[s]) <= Len(sent'[s])
       /\ \A i \in DOMAIN SentNow(s) :
            readyState[s] = "open" /\ s \in sessionConnections[SentNow(s)[i].key]
       /\ (readyState[s] = "new" /\ readyState'[s] # "new") =>
            \/ /\ readyState'[s] = "open"
               /\ Cardinality({k \in Keys : s \in sessionConnections'[k]}) = 1
            \/ /\ readyState'[s] = "closed"
               /\ \A k \in Keys : s \notin sessionConnections'[k]]_vars

\* one session's activities were sent to its subscriber while the subscriber of another
\* session, open all along, was sent nothing
C39_Witness ==
  \E s, r \in Sockets, k, j \in Keys :
    /\ k # j /\ s \in sessionConnections[k] /\ r \in sessionConnections[j]
    /\ readyState[r] = "open" /\ sent[r] = <<>>
    /\ sent[s] # <<>> /\ sent[s] = events[k]

\* C40: getSandboxStatus(k) is a read: it is over in the step it starts in (no probe, no
\* sandbox call), records and sends no activity, changes no table and no sandbox, and
\* answers active=true with the handle's id exactly when a handle is stored for k,
\* active=false with no id otherwise.
C40_StatusPureRead ==
  [][\A p \in Procs :
       LET k == procs'[p].key IN
       (procs'[p] # procs[p] /\ procs'[p].op = "getSandboxStatus") =>
         /\ procs'[p].pc = "done"
         /\ UNCHANGED <<lifecycle, world, createCalls, events, sent>>
         /\ procs'[p].ret.msg = IF activeSandboxes[k] # NoEnv THEN "active=true" ELSE "active=false"
         /\ procs'[p].ret.id = activeSandboxes[k]]_vars

\* the status of a released session, whose recorded id is still there, and of a session
\* with a handle
C40_Witness ==
  \E p \in Procs :
    LET k == procs[p].key IN
    /\ procs[p].op = "getSandboxStatus" /\ procs[p].pc = "done"
    /\ procs[p].ret.msg = "active=false"
    /\ activeSandboxes[k] = NoEnv /\ sandboxIds[k] # NoEnv

====
